---- MODULE Spec2Model ----
(***************************************************************************)
(* Model of the promo-site tools: the promogen CLI (tools/promogen.py) and *)
(* the Event Folder Maker GUI (tools/event_maker_gui.py).                  *)
(*                                                                         *)
(* A Python str is modelled as a sequence of characters, each character a  *)
(* one-character TLA+ string.  Non-ASCII characters are written as named   *)
(* tokens: "<alef>" (U+05D0, a Hebrew letter), "<long-s>" (U+017F),        *)
(* "<I-dot>" (U+0130) and "<dot-above>" (U+0307, a combining mark).        *)
(***************************************************************************)
EXTENDS Integers, Sequences, FiniteSets, TLC

VARIABLES call, events, index, last, gui

vars == <<call, events, index, last, gui>>

(***************************************************************************)
(* Characters and character classes                                        *)
(***************************************************************************)
Digits == <<"0", "1", "2", "3", "4", "5", "6", "7", "8", "9">>

AsciiLower == <<"a", "b", "c", "d", "e", "f", "g", "h", "i", "j", "k", "l", "m",
                "n", "o", "p", "q", "r", "s", "t", "u", "v", "w", "x", "y", "z">>

AsciiUpper == <<"A", "B", "C", "D", "E", "F", "G", "H", "I", "J", "K", "L", "M",
                "N", "O", "P", "Q", "R", "S", "T", "U", "V", "W", "X", "Y", "Z">>

Range(s) == {s[i] : i \in 1..Len(s)}

DigitChars == Range(Digits)

LowerChars == Range(AsciiLower)

UpperChars == Range(AsciiUpper)

\* str.strip() with no argument strips whitespace
Whitespace == {" ", "\t"}

\* the characters Python's \w matches (str patterns are Unicode patterns):
\* letters of any script, decimal digits and the underscore; a combining mark
\* is not a word character
WordChars == LowerChars \cup UpperChars \cup DigitChars
                \cup {"_", "<alef>", "<long-s>", "<I-dot>"}

\* the characters [a-z0-9\-] matches under re.IGNORECASE: the ASCII letters of
\* both cases, the digits, the hyphen, and the non-ASCII letters whose case
\* folding is an ASCII letter
SlugReChars == LowerChars \cup UpperChars \cup DigitChars
                \cup {"-", "<long-s>", "<I-dot>"}

DigitValue == [c \in DigitChars |-> (CHOOSE i \in 1..10 : Digits[i] = c) - 1]

DigitVal(c) == DigitValue[c]

\* int() of a string of ASCII digits
RECURSIVE ToInt(_)
ToInt(s) == IF s = <<>> THEN 0
            ELSE 10 * ToInt(SubSeq(s, 1, Len(s) - 1)) + DigitVal(s[Len(s)])

AllDigits(s) == \A i \in 1..Len(s) : s[i] \in DigitChars

(***************************************************************************)
(* str methods and re.sub                                                  *)
(***************************************************************************)
RECURSIVE LStrip(_, _)
LStrip(s, set) == IF s # <<>> /\ Head(s) \in set THEN LStrip(Tail(s), set) ELSE s

RECURSIVE RStrip(_, _)
RStrip(s, set) == IF s # <<>> /\ s[Len(s)] \in set
                  THEN RStrip(SubSeq(s, 1, Len(s) - 1), set) ELSE s

\* s.strip() / s.strip(chars)
Strip(s, set) == RStrip(LStrip(s, set), set)

\* str.lower() of one character: a string, since U+0130 lowers to two characters
LowerOf == [c \in UpperChars |-> AsciiLower[CHOOSE i \in 1..26 : AsciiUpper[i] = c]]

LowerChar(c) == IF c \in UpperChars THEN <<LowerOf[c]>>
                ELSE IF c = "<I-dot>" THEN <<"i", "<dot-above>">>
                ELSE <<c>>

RECURSIVE Lower(_)
Lower(s) == IF s = <<>> THEN <<>> ELSE LowerChar(Head(s)) \o Lower(Tail(s))

\* s.replace(old, new) for a one-character old
RECURSIVE Replace(_, _, _)
Replace(s, old, new) ==
    IF s = <<>> THEN <<>>
    ELSE (IF Head(s) = old THEN new ELSE <<Head(s)>>) \o Replace(Tail(s), old, new)

\* re.sub(r"[^...]", "", s) and re.sub(r"[^...]+", "", s): drop what is not kept
KeepOnly(s, keep) == SelectSeq(s, LAMBDA c : c \in keep)

RECURSIVE RunLen(_, _)
RunLen(s, set) == IF s # <<>> /\ Head(s) \in set THEN 1 + RunLen(Tail(s), set) ELSE 0

\* re.sub(r"[set]{min,}", "-", s): every maximal run of at least min characters
\* of set becomes one hyphen
RECURSIVE SubRuns(_, _, _)
SubRuns(s, set, min) ==
    IF s = <<>> THEN <<>>
    ELSE LET n == RunLen(s, set)
         IN  IF n = 0 THEN <<Head(s)>> \o SubRuns(Tail(s), set, min)
             ELSE (IF n >= min THEN <<"-">> ELSE SubSeq(s, 1, n))
                      \o SubRuns(SubSeq(s, n + 1, Len(s)), set, min)

Event == <<"e", "v", "e", "n", "t">>

\* x or "event"
OrEvent(s) == IF s = <<>> THEN Event ELSE s

(***************************************************************************)
(* slugify, in the GUI and in the CLI                                      *)
(***************************************************************************)
\* gui_slugify without the final strip("-")
gui_slugify_no_strip(text) ==
    LET t1 == Lower(Strip(text, Whitespace))
        t2 == Replace(t1, "&", <<" ", "a", "n", "d", " ">>)
        t3 == KeepOnly(t2, WordChars \cup Whitespace \cup {"-"})
        t4 == SubRuns(t3, Whitespace \cup {"_"}, 1)
        t5 == SubRuns(t4, {"-"}, 2)
    IN  OrEvent(t5)

gui_slugify(text) ==
    LET t1 == Lower(Strip(text, Whitespace))
        t2 == Replace(t1, "&", <<" ", "a", "n", "d", " ">>)
        t3 == KeepOnly(t2, WordChars \cup Whitespace \cup {"-"})
        t4 == SubRuns(t3, Whitespace \cup {"_"}, 1)
        t5 == SubRuns(t4, {"-"}, 2)
    IN  OrEvent(Strip(t5, {"-"}))

cli_slugify(s) ==
    LET s1 == Lower(Strip(s, Whitespace))
        s2 == Replace(s1, " ", <<"-">>)
        s3 == KeepOnly(s2, SlugReChars)
        s4 == Strip(SubRuns(s3, {"-"}, 2), {"-"})
    IN  OrEvent(s4)

(***************************************************************************)
(* Calendar                                                                *)
(***************************************************************************)
IsLeap(y) == (y % 4 = 0 /\ y % 100 # 0) \/ y % 400 = 0

DaysInMonth(y, m) == IF m = 2 THEN (IF IsLeap(y) THEN 29 ELSE 28)
                     ELSE IF m \in {4, 6, 9, 11} THEN 30 ELSE 31

\* the check datetime's constructor makes: MINYEAR <= year <= MAXYEAR,
\* 1 <= month <= 12, 1 <= day <= days in that month
ValidYmd(y, m, d) == /\ y >= 1 /\ y <= 9999
                     /\ m >= 1 /\ m <= 12
                     /\ d >= 1 /\ d <= DaysInMonth(y, m)

ValidHm(hh, mm) == hh >= 0 /\ hh <= 23 /\ mm >= 0 /\ mm <= 59

Char(s, i) == IF i >= 1 /\ i <= Len(s) THEN s[i] ELSE "<end>"

(***************************************************************************)
(* GUI: validate_date and validate_time                                    *)
(***************************************************************************)
\* %m of strptime, the group (1[0-2]|0[1-9]|[1-9]) at position p, followed by
\* the literal hyphen of the format: the length matched, 0 when none matches
StrptimeMonthLen(s, p) ==
    LET a == Char(s, p)
        b == Char(s, p + 1)
        two == \/ a = "1" /\ b \in {"0", "1", "2"}
               \/ a = "0" /\ b \in DigitChars \ {"0"}
    IN  IF two /\ Char(s, p + 2) = "-" THEN 2
        ELSE IF a \in DigitChars \ {"0"} /\ b = "-" THEN 1
        ELSE 0

\* %d of strptime, the group (3[0-1]|[1-2]\d|0[1-9]|[1-9]| [1-9]) at position
\* p, the last group of the format: the first alternative that matches
StrptimeDayLen(s, p) ==
    LET a == Char(s, p)
        b == Char(s, p + 1)
    IN  IF a = "3" /\ b \in {"0", "1"} THEN 2
        ELSE IF a \in {"1", "2"} /\ b \in DigitChars THEN 2
        ELSE IF a = "0" /\ b \in DigitChars \ {"0"} THEN 2
        ELSE IF a \in DigitChars \ {"0"} THEN 1
        ELSE IF a = " " /\ b \in DigitChars \ {"0"} THEN 2
        ELSE 0

\* datetime.strptime(date_str, "%Y-%m-%d") succeeds: the format's regex matches
\* at the start, no unconverted data remains, and the fields make a date
strptime_ok(date_str) ==
    /\ Len(date_str) >= 5
    /\ AllDigits(SubSeq(date_str, 1, 4))
    /\ date_str[5] = "-"
    /\ LET ml == StrptimeMonthLen(date_str, 6)
           dl == StrptimeDayLen(date_str, 7 + ml)
       IN  /\ ml > 0
           /\ dl > 0
           /\ Len(date_str) = 6 + ml + dl
           /\ ValidYmd(ToInt(SubSeq(date_str, 1, 4)),
                       ToInt(SubSeq(date_str, 6, 5 + ml)),
                       ToInt(Strip(SubSeq(date_str, 7 + ml, 6 + ml + dl), {" "})))

\* ok = FALSE models the ValueError
validate_date(date_str) ==
    IF strptime_ok(date_str) THEN [ok |-> TRUE, ret |-> date_str]
    ELSE [ok |-> FALSE, ret |-> <<>>]

\* re.fullmatch(r"\d{2}:\d{2}", s) and re.match(r"^\d{2}:\d{2}$", s) on a
\* string without a trailing newline
HhMmShape(s) == /\ Len(s) = 5
                /\ s[1] \in DigitChars /\ s[2] \in DigitChars
                /\ s[3] = ":"
                /\ s[4] \in DigitChars /\ s[5] \in DigitChars

Midnight == <<"0", "0", ":", "0", "0">>

\* validate_time without the range check on hour and minute
validate_time_no_range(time_str) ==
    LET s == Strip(time_str, Whitespace)
    IN  IF s = <<>> THEN [ok |-> TRUE, ret |-> Midnight]
        ELSE IF ~HhMmShape(s) THEN [ok |-> FALSE, ret |-> <<>>]
        ELSE [ok |-> TRUE, ret |-> s]

validate_time(time_str) ==
    LET s == Strip(time_str, Whitespace)
    IN  IF s = <<>> THEN [ok |-> TRUE, ret |-> Midnight]
        ELSE IF ~HhMmShape(s) THEN [ok |-> FALSE, ret |-> <<>>]
        ELSE IF ~ValidHm(ToInt(SubSeq(s, 1, 2)), ToInt(SubSeq(s, 4, 5)))
             THEN [ok |-> FALSE, ret |-> <<>>]
        ELSE [ok |-> TRUE, ret |-> s]

(***************************************************************************)
(* CLI: parse_dt                                                           *)
(***************************************************************************)
\* meta.json is a JSON object: a function from its keys to strings
Get(meta, key, default) == IF key \in DOMAIN meta THEN meta[key] ELSE default

\* re.match(r"^\d{4}-\d{2}-\d{2}$", date)
YmdShape(s) == /\ Len(s) = 10
               /\ AllDigits(SubSeq(s, 1, 4)) /\ s[5] = "-"
               /\ AllDigits(SubSeq(s, 6, 7)) /\ s[8] = "-"
               /\ AllDigits(SubSeq(s, 9, 10))

\* datetime.fromisoformat on the strings parse_dt hands it, which are
\* dddd-dd-ddT followed by dd:dd:00 or, for an empty time, by :00 (that one
\* is no ISO format: ValueError)
fromisoformat(s) ==
    IF Len(s) = 19 /\ YmdShape(SubSeq(s, 1, 10)) /\ s[11] = "T" /\ HhMmShape(SubSeq(s, 12, 16))
    THEN LET dt == <<ToInt(SubSeq(s, 1, 4)), ToInt(SubSeq(s, 6, 7)), ToInt(SubSeq(s, 9, 10)),
                     ToInt(SubSeq(s, 12, 13)), ToInt(SubSeq(s, 15, 16))>>
         IN  IF ValidYmd(dt[1], dt[2], dt[3]) /\ ValidHm(dt[4], dt[5])
             THEN [ok |-> TRUE, dt |-> dt]
             ELSE [ok |-> FALSE, dt |-> <<>>]
    ELSE [ok |-> FALSE, dt |-> <<>>]

\* ok = FALSE models the ValueError; dt is <<year, month, day, hour, minute>>
parse_dt(meta) ==
    LET date == Strip(Get(meta, "date", <<>>), Whitespace)
        raw  == Get(meta, "time", Midnight)
        time == Strip(IF raw = <<>> THEN Midnight ELSE raw, Whitespace)
    IN  IF ~YmdShape(date) THEN [ok |-> FALSE, dt |-> <<>>]
        ELSE IF time # <<>> /\ ~HhMmShape(time) THEN [ok |-> FALSE, dt |-> <<>>]
        ELSE fromisoformat(date \o <<"T">> \o time \o <<":", "0", "0">>)

\* datetime comparison: a < b
RECURSIVE LexLess(_, _)
LexLess(a, b) == IF a = <<>> \/ b = <<>> THEN FALSE
                 ELSE \/ Head(a) < Head(b)
                      \/ Head(a) = Head(b) /\ LexLess(Tail(a), Tail(b))

DtLess(a, b) == LexLess(a, b)

(***************************************************************************)
(* Inputs                                                                  *)
(***************************************************************************)
MaxTitleLen == 3

MaxTimeLen == 5

TitleAlphabet == {"a", "B", "7", "-", "_", " ", "\t", "&", "!",
                  "<alef>", "<long-s>", "<I-dot>"}

TimeAlphabet == {"0", "2", "3", "4", "6", ":", " "}

StringsUpTo(alphabet, n) == UNION {[1..k -> alphabet] : k \in 0..n}

RockTitle == <<"R", "o", "c", "k", " ", "&", " ", "R", "o", "l", "l", " ",
               "N", "i", "g", "h", "t", "!", "!">>

GigTitle == <<"G", "i", "g">>

\* a title with a non-ASCII letter, surrounding blanks and punctuation
HebrewTitle == <<" ", "<alef>", "_", "a", "!", " ">>

Titles == StringsUpTo(TitleAlphabet, MaxTitleLen) \cup {RockTitle, GigTitle, HebrewTitle}

TimeStrings == StringsUpTo(TimeAlphabet, MaxTimeLen)
                 \cup {<<"2", "2", ":", "0", "0">>, <<"2", "3", ":", "5", "9">>,
                       <<"2", "5", ":", "0", "0">>, <<"2", "2", ":", "6", "0">>,
                       <<"9", ":", "0", "0">>, <<" ", "2", "2", ":", "0", "0", " ">>,
                       <<"\t", "0", "9", ":", "3", "0">>}

YearParts == {<<"2", "0", "2", "6">>, <<"2", "0", "2", "4">>, <<"0", "0", "0", "0">>,
              <<"2", "0", "2">>}

MonthParts == {<<"0", "1">>, <<"0", "2">>, <<"0", "3">>, <<"2">>, <<"3">>,
               <<"1", "2">>, <<"1", "3">>, <<"0", "0">>, <<"0">>}

DayParts == {<<"0", "7">>, <<"7">>, <<" ", "7">>, <<"2", "8">>, <<"2", "9">>,
             <<"3", "0">>, <<"3", "1">>, <<"3", "2">>, <<"0", "0">>, <<"0", "7", "1">>}

Pads == {<<>>, <<" ">>}

\* year, month and day parts joined by a separator, with or without blanks
\* around them, and the day-first order
DateStrings ==
    {pre \o y \o sep \o m \o sep \o d \o post :
        pre \in Pads, y \in YearParts, sep \in {<<"-">>, <<"/">>, <<>>},
        m \in MonthParts, d \in DayParts, post \in Pads}
    \cup {d \o <<"-">> \o m \o <<"-">> \o y :
            d \in DayParts, m \in MonthParts, y \in YearParts}
    \cup {<<>>}

(***************************************************************************)
(* State                                                                   *)
(***************************************************************************)
\* call: the last call of a helper, its argument and its result
NoCall == [fn |-> "none", arg |-> <<>>, ok |-> TRUE, ret |-> <<>>]

\* index: events/index.json, absent until a build writes it
NoIndex == [exists |-> FALSE, names |-> <<>>]

\* events: the immediate subdirectories of events/, by folder name
NoEvents == [f \in {} |-> <<>>]

Str_2026_01_01 == <<"2", "0", "2", "6", "-", "0", "1", "-", "0", "1">>

Str_10_00 == <<"1", "0", ":", "0", "0">>

CoverJpg == <<"c", "o", "v", "e", "r", ".", "j", "p", "g">>

OldFolder == Str_2026_01_01 \o <<"-", "o", "l", "d">>

OldMeta == [title |-> <<"O", "l", "d">>, date |-> Str_2026_01_01, time |-> Str_10_00,
            location |-> <<>>, description |-> <<>>, ticket_url |-> <<"u">>,
            promoter_url |-> <<>>, coupon_code |-> <<>>, image |-> CoverJpg]

Without(meta, key) == [k \in DOMAIN meta \ {key} |-> meta[k]]

\* a meta.json written or edited by hand: complete, or with a key removed, or
\* with a blank time
HandMetas == {OldMeta, Without(OldMeta, "date"), Without(OldMeta, "time"),
              Without(OldMeta, "title"), [OldMeta EXCEPT !.time = <<" ">>]}

\* a directory of events/ without a meta.json, which cmd_build passes over
StrayDir == [meta |-> [k \in {} |-> <<>>], hasMeta |-> FALSE, cover |-> "none", newWrites |-> 0]

\* the events directory the tools start from: empty, or holding one folder
\* made by hand
InitialEvents ==
    {NoEvents} \cup {[f \in {OldFolder} |-> [meta |-> m, hasMeta |-> TRUE, cover |-> "image", newWrites |-> 0]] :
                        m \in HandMetas}
    \cup {[f \in {OldFolder} |-> StrayDir]}

NoOp == [op |-> "none"]

\* "ronnuriel/promo-site", the text ensure_origin_is_fork looks for
UpstreamName == <<"r", "o", "n", "n", "u", "r", "i", "e", "l", "/", "p", "r", "o", "m", "o", "-", "s", "i", "t", "e">>

GitHubHttps == <<"h", "t", "t", "p", "s", ":", "/", "/", "g", "i", "t", "h", "u", "b", ".", "c", "o", "m", "/">>

GitHubSsh == <<"g", "i", "t", "@", "g", "i", "t", "h", "u", "b", ".", "c", "o", "m", ":">>

DotGit == <<".", "g", "i", "t">>

\* what git remote get-url origin prints (stripped): the URL of a partner's
\* fork, URLs of the upstream repository as git clone may have been given
\* them, or nothing when the clone has no origin
ForkUrl == GitHubHttps \o <<"p", "a", "r", "t", "n", "e", "r", "/", "p", "r", "o", "m", "o", "-", "s", "i", "t", "e">> \o DotGit

UpstreamHttpsUrl == GitHubHttps \o UpstreamName \o DotGit

UpstreamSshUrl == GitHubSsh \o UpstreamName

UpstreamMixedCaseUrl == GitHubHttps \o <<"R", "o", "n", "N", "u", "r", "i", "e", "l", "/", "p", "r", "o", "m", "o", "-", "s", "i", "t", "e">> \o DotGit

NoOrigin == <<>>

OriginUrls == {ForkUrl, UpstreamHttpsUrl, UpstreamSshUrl, UpstreamMixedCaseUrl, NoOrigin}

\* sub in s
Contains(sub, s) ==
    \E i \in 0..(Len(s) - Len(sub)) : SubSeq(s, i + 1, i + Len(sub)) = sub

\* gui: the GUI action under way, the step it is at, the external commands it
\* has run with their exit codes, its outcome, and the URL of the origin
\* remote of the clone
GuiIdle == [action |-> "idle", pc |-> "idle", ran |-> <<>>, result |-> "none",
            origin |-> ForkUrl]

Init == /\ call = NoCall
        /\ events \in InitialEvents
        /\ index = NoIndex
        /\ last = NoOp
        /\ gui = GuiIdle

(***************************************************************************)
(* The helpers, called on their own: the argument is drawn at the start    *)
(* and the call applies the helper to it                                   *)
(***************************************************************************)
InitHelpers == /\ \E arg \in Titles \cup DateStrings \cup TimeStrings :
                     call = [fn |-> "none", arg |-> arg, ok |-> TRUE, ret |-> <<>>]
               /\ events = NoEvents
               /\ index = NoIndex
               /\ last = NoOp
               /\ gui = GuiIdle

CallGuiSlugify ==
    /\ call.fn = "none"
    /\ call.arg \in Titles
    /\ call' = [fn |-> "gui_slugify", arg |-> call.arg, ok |-> TRUE,
                ret |-> gui_slugify(call.arg)]
    /\ UNCHANGED <<events, index, last, gui>>

CallCliSlugify ==
    /\ call.fn = "none"
    /\ call.arg \in Titles
    /\ call' = [fn |-> "cli_slugify", arg |-> call.arg, ok |-> TRUE,
                ret |-> cli_slugify(call.arg)]
    /\ UNCHANGED <<events, index, last, gui>>

CallValidateDate ==
    /\ call.fn = "none"
    /\ call.arg \in DateStrings
    /\ call' = [fn |-> "validate_date", arg |-> call.arg,
                ok |-> validate_date(call.arg).ok,
                ret |-> validate_date(call.arg).ret]
    /\ UNCHANGED <<events, index, last, gui>>

CallValidateTime ==
    /\ call.fn = "none"
    /\ call.arg \in TimeStrings
    /\ call' = [fn |-> "validate_time", arg |-> call.arg,
                ok |-> validate_time(call.arg).ok,
                ret |-> validate_time(call.arg).ret]
    /\ UNCHANGED <<events, index, last, gui>>

NextHelpers == \/ CallGuiSlugify
               \/ CallCliSlugify
               \/ CallValidateDate
               \/ CallValidateTime

SpecHelpers == InitHelpers /\ [][NextHelpers]_vars

(***************************************************************************)
(* The events directory: new, create_event, build                          *)
(*                                                                         *)
(* events[f] is the folder events/f: meta is its meta.json (a JSON object: *)
(* a function from keys to strings; hasMeta tells whether the file is      *)
(* there), cover its cover.jpg ("placeholder":                             *)
(* the empty file cmd_new touches, "image": the picture the GUI copies),   *)
(* newWrites counts the writes of its meta.json by cmd_new.  The GUI's     *)
(* output root is the repository's events/ (default_events_root).          *)
(***************************************************************************)
MaxFolders == 3

Str_2026_03_07 == <<"2", "0", "2", "6", "-", "0", "3", "-", "0", "7">>

Str_2025_12_31 == <<"2", "0", "2", "5", "-", "1", "2", "-", "3", "1">>

Str_07_03_2026 == <<"0", "7", "-", "0", "3", "-", "2", "0", "2", "6">>

Str_2026_3_7 == <<"2", "0", "2", "6", "-", "3", "-", "7">>

Str_21_30 == <<"2", "1", ":", "3", "0">>

Str_25_00 == <<"2", "5", ":", "0", "0">>

Str_22_00 == <<"2", "2", ":", "0", "0">>

\* The invocations of new, <<date, title, time, slug>>; an omitted option (None)
\* and an empty one are both falsy: <<>>.  Two of them name the same folder,
\* two fall on the same instant, one has a day-first date, one an hour of 25.
CliArgs == {<<Str_2026_03_07, RockTitle, <<>>, <<>>>>,
            <<Str_2026_03_07, GigTitle, Str_21_30, <<>>>>,
            <<Str_2026_03_07, GigTitle, Str_25_00, <<>>>>,
            <<Str_2025_12_31, GigTitle, <<>>, <<>>>>,
            <<Str_2025_12_31, GigTitle, <<>>, <<"v", "i", "p">>>>,
            <<Str_07_03_2026, GigTitle, <<>>, <<>>>>}

\* The forms submitted to create_event, <<title, date, time, ticket, img>>:
\* ticket and img say whether the ticket URL is non-empty and the image path
\* is a file.
GuiArgs == {<<RockTitle, Str_2026_03_07, <<>>, TRUE, TRUE>>,
            <<RockTitle, Str_2026_03_07, Str_21_30, TRUE, TRUE>>,
            <<RockTitle, Str_2026_3_7, <<" ">>, TRUE, TRUE>>,
            <<<<" ">>, Str_2026_03_07, Str_21_30, TRUE, TRUE>>,
            <<RockTitle, Str_07_03_2026, Str_21_30, TRUE, TRUE>>,
            <<RockTitle, Str_2026_03_07, Str_25_00, TRUE, TRUE>>,
            <<RockTitle, Str_2026_03_07, Str_21_30, FALSE, TRUE>>,
            <<RockTitle, Str_2026_03_07, Str_21_30, TRUE, FALSE>>}

Op(op, exit, folder, date, title, time, slug, wrote) ==
    [op |-> op, exit |-> exit, folder |-> folder, date |-> date, title |-> title,
     time |-> time, slug |-> slug, wrote |-> wrote]

META_TEMPLATE ==
    [title |-> <<>>, date |-> <<"2", "0", "2", "6", "-", "0", "3", "-", "0", "2">>,
     time |-> Str_22_00, location |-> <<>>, description |-> <<>>,
     ticket_url |-> <<>>, promoter_url |-> <<>>, coupon_code |-> <<>>,
     image |-> CoverJpg]

\* the folder f added to, or replaced in, the events directory
WithFolder(f, dir) == [g \in DOMAIN events \cup {f} |-> IF g = f THEN dir ELSE events[g]]

\* cmd_new without the check that the folder exists (mkdir with exist_ok)
cmd_new_overwrite(date, title, time, slug) ==
    LET sl == IF slug # <<>> THEN slug ELSE cli_slugify(title)
        folder_name == date \o <<"-">> \o sl
        meta0 == [META_TEMPLATE EXCEPT !.title = title, !.date = date]
        meta  == IF time # <<>> THEN [meta0 EXCEPT !.time = time] ELSE meta0
        old == IF folder_name \in DOMAIN events THEN events[folder_name].newWrites ELSE 0
    IN  /\ folder_name \in DOMAIN events \/ Cardinality(DOMAIN events) < MaxFolders
        /\ events' = WithFolder(folder_name,
                                [meta |-> meta, hasMeta |-> TRUE, cover |-> "placeholder",
                                 newWrites |-> old + 1])
        /\ last' = Op("new", 0, folder_name, date, title, time, slug, TRUE)
        /\ UNCHANGED <<index, call, gui>>

\* promogen new --date --title [--time] [--slug]: the other options only
\* fill fields of meta.json that nothing reads
cmd_new(date, title, time, slug) ==
    LET sl == IF slug # <<>> THEN slug ELSE cli_slugify(title)
        folder_name == date \o <<"-">> \o sl
        meta0 == [META_TEMPLATE EXCEPT !.title = title, !.date = date]
        meta  == IF time # <<>> THEN [meta0 EXCEPT !.time = time] ELSE meta0
    IN  IF folder_name \in DOMAIN events
        THEN /\ last' = Op("new", 1, folder_name, date, title, time, slug, FALSE)
             /\ UNCHANGED <<events, index, call, gui>>
        ELSE /\ Cardinality(DOMAIN events) < MaxFolders
             /\ events' = WithFolder(folder_name,
                                     [meta |-> meta, hasMeta |-> TRUE, cover |-> "placeholder",
                                      newWrites |-> 1])
             /\ last' = Op("new", 0, folder_name, date, title, time, slug, TRUE)
             /\ UNCHANGED <<index, call, gui>>

\* App.create_event; pr is the outcome of the push_pr it ends with ("off" when
\* the auto-PR box is unchecked): an error of push_pr is shown like any other,
\* after the folder was written
create_event(title_var, date_var, time_var, ticket, img) ==
    LET title == Strip(title_var, Whitespace)
        d == validate_date(Strip(date_var, Whitespace))
        t == validate_time(Strip(time_var, Whitespace))
        folder == d.ret \o <<"-">> \o gui_slugify(title)
        meta == [title |-> title, date |-> d.ret, time |-> t.ret, location |-> <<>>,
                 description |-> <<>>, ticket_url |-> <<"u">>, promoter_url |-> <<>>,
                 coupon_code |-> <<>>, image |-> CoverJpg]
        old == IF folder \in DOMAIN events THEN events[folder].newWrites ELSE 0
    IN  IF title = <<>> \/ ~d.ok \/ ~t.ok \/ ~ticket \/ ~img
        THEN /\ last' = Op("create_event", 1, <<>>, <<>>, <<>>, <<>>, <<>>, FALSE)
             /\ UNCHANGED <<events, index, call, gui>>
        ELSE /\ folder \in DOMAIN events \/ Cardinality(DOMAIN events) < MaxFolders
             /\ events' = WithFolder(folder,
                                     [meta |-> meta, hasMeta |-> TRUE, cover |-> "image",
                                      newWrites |-> old])
             /\ \E pr \in {"off", "ok", "error"} :
                   last' = Op("create_event", IF pr = "error" THEN 1 ELSE 0, folder,
                              date_var, title_var, time_var, <<>>, TRUE)
             /\ UNCHANGED <<index, call, gui>>

\* the orders in which iterdir() may list the folders
Orders(S) == {o \in [1..Cardinality(S) -> S] : \A i, j \in DOMAIN o : i # j => o[i] # o[j]}

\* BuildItems skipping, instead of raising on, a meta.json parse_dt rejects
RECURSIVE BuildItems_skip_bad(_)
BuildItems_skip_bad(order) ==
    IF order = <<>> THEN [ok |-> TRUE, items |-> <<>>]
    ELSE LET name == Head(order)
             dt   == parse_dt(events[name].meta)
             rest == BuildItems_skip_bad(Tail(order))
         IN  IF ~events[name].hasMeta \/ ~dt.ok THEN rest
             ELSE [ok |-> TRUE,
                   items |-> <<[dt |-> dt.dt, name |-> name]>> \o rest.items]

\* the loop of cmd_build over the folders in the order listed: the items
\* (dt, name), or the ValueError of the first meta.json parse_dt rejects
RECURSIVE BuildItems(_)
BuildItems(order) ==
    IF order = <<>> THEN [ok |-> TRUE, items |-> <<>>]
    ELSE LET name == Head(order)
             dt   == parse_dt(events[name].meta)
         IN  IF ~events[name].hasMeta THEN BuildItems(Tail(order))
             ELSE IF ~dt.ok THEN [ok |-> FALSE, items |-> <<>>]
             ELSE LET rest == BuildItems(Tail(order))
                  IN  IF ~rest.ok THEN rest
                      ELSE [ok |-> TRUE,
                            items |-> <<[dt |-> dt.dt, name |-> name]>> \o rest.items]

\* item placed after the items of sorted whose key is not greater
RECURSIVE InsertByDt(_, _)
InsertByDt(item, sorted) ==
    IF sorted = <<>> THEN <<item>>
    ELSE IF DtLess(item.dt, Head(sorted).dt) THEN <<item>> \o sorted
    ELSE <<Head(sorted)>> \o InsertByDt(item, Tail(sorted))

\* cmd_build without the sort: the items in the order iterdir() listed them
SortItems_unsorted(items) == items

\* items.sort(key=lambda x: x[0]): a stable sort by datetime
RECURSIVE SortItems(_)
SortItems(items) ==
    IF items = <<>> THEN <<>>
    ELSE InsertByDt(items[Len(items)], SortItems(SubSeq(items, 1, Len(items) - 1)))

Names(items) == [i \in 1..Len(items) |-> items[i].name]

\* cmd_build keeping the names the previous index.json lists
cmd_build_append(order) ==
    LET built == BuildItems(order)
    IN  IF ~built.ok
        THEN /\ last' = Op("build", 1, <<>>, <<>>, <<>>, <<>>, <<>>, FALSE)
             /\ UNCHANGED <<events, index, call, gui>>
        ELSE /\ index' = [exists |-> TRUE,
                          names |-> index.names \o Names(SortItems(built.items))]
             /\ last' = Op("build", 0, <<>>, <<>>, <<>>, <<>>, <<>>, TRUE)
             /\ UNCHANGED <<events, call, gui>>

\* promogen build: an uncaught ValueError ends the process with exit code 1
\* before write_json is reached
cmd_build(order) ==
    LET built == BuildItems(order)
    IN  IF ~built.ok
        THEN /\ last' = Op("build", 1, <<>>, <<>>, <<>>, <<>>, <<>>, FALSE)
             /\ UNCHANGED <<events, index, call, gui>>
        ELSE /\ index' = [exists |-> TRUE, names |-> Names(SortItems(built.items))]
             /\ last' = Op("build", 0, <<>>, <<>>, <<>>, <<>>, <<>>, TRUE)
             /\ UNCHANGED <<events, call, gui>>

New == \E args \in CliArgs : cmd_new(args[1], args[2], args[3], args[4])

CreateEvent == \E args \in GuiArgs :
                  create_event(args[1], args[2], args[3], args[4], args[5])

Build == \E order \in Orders(DOMAIN events) : cmd_build(order)

Next == New \/ CreateEvent \/ Build

Spec == Init /\ [][Next]_vars

(***************************************************************************)
(* The GUI's publish flow: push_pr, startup_sync, manual_sync.  Each        *)
(* external command is one step; its exit code is the environment's.       *)
(***************************************************************************)
InitPublish == /\ call = NoCall
               /\ events = NoEvents
               /\ index = NoIndex
               /\ last = NoOp
               /\ \E o \in OriginUrls : gui = [GuiIdle EXCEPT !.origin = o]

ExitCodes == {0, 1}

Ran(cmd, exit) == Append(gui.ran, [cmd |-> cmd, exit |-> exit])

\* the action ends: returned normally ("ok", "no changes", "skipped") or with
\* the error its caller shows ("error")
Ended(ran, result) == gui' = [gui EXCEPT !.pc = "end", !.ran = ran, !.result = result]

\* run_cmd without the check of the return code
run_cmd_ignore_exit(cmd, exit, next) ==
    gui' = [gui EXCEPT !.ran = Ran(cmd, exit), !.pc = next]

\* run_cmd: RuntimeError on a non-zero return code
run_cmd(cmd, exit, next) ==
    IF exit # 0 THEN Ended(Ran(cmd, exit), "error")
    ELSE gui' = [gui EXCEPT !.ran = Ran(cmd, exit), !.pc = next]

\* what a failed precondition does: push_pr and manual_sync raise, startup_sync
\* logs and returns
Refuse(ran) ==
    Ended(ran, IF gui.action = "startup_sync" THEN "skipped" ELSE "error")

\* a button or timer starts an action: push_pr checks the tools first,
\* startup_sync and manual_sync look for the repository first
Start(action) ==
    /\ gui.pc \in {"idle", "end"}
    /\ gui' = [gui EXCEPT !.action = action, !.ran = <<>>, !.result = "none",
                          !.pc = IF action = "push_pr" THEN "tools" ELSE "repo"]
    /\ UNCHANGED <<call, events, index, last>>

\* command_exists("git") and command_exists("gh")
CheckTools(found) ==
    /\ gui.pc = "tools"
    /\ IF ~found THEN Refuse(gui.ran)
       ELSE gui' = [gui EXCEPT !.pc = IF gui.action = "push_pr" THEN "repo" ELSE "auth"]
    /\ UNCHANGED <<call, events, index, last>>

\* find_repo_root / _detect_repo
DetectRepo(found) ==
    /\ gui.pc = "repo"
    /\ IF ~found THEN Refuse(gui.ran)
       ELSE gui' = [gui EXCEPT !.pc = IF gui.action = "push_pr" THEN "auth" ELSE "tools"]
    /\ UNCHANGED <<call, events, index, last>>

\* gh_authed: gh auth status
GhAuthStatus(exit) ==
    /\ gui.pc = "auth"
    /\ IF exit # 0 THEN Refuse(Ran("gh auth status", exit))
       ELSE gui' = [gui EXCEPT !.ran = Ran("gh auth status", exit), !.pc = "origin"]
    /\ UNCHANGED <<call, events, index, last>>

\* get_origin_url: the return code of git remote get-url origin is not read,
\* its output is empty when there is no origin; ensure_origin_is_fork raises
\* if "ronnuriel/promo-site" in origin
ensure_origin_is_fork ==
    /\ gui.pc = "origin"
    /\ LET ran == Ran("git remote get-url origin", IF gui.origin = NoOrigin THEN 1 ELSE 0)
       IN  IF Contains(UpstreamName, gui.origin) THEN Ended(ran, "error")
           ELSE gui' = [gui EXCEPT !.ran = ran, !.pc = "sync"]
    /\ UNCHANGED <<call, events, index, last>>

\* sync_with_upstream, 1: gh repo sync, best effort
GhRepoSync(exit) ==
    /\ gui.pc = "sync"
    /\ gui' = [gui EXCEPT !.ran = Ran("gh repo sync", exit), !.pc = "checkout"]
    /\ UNCHANGED <<call, events, index, last>>

\* sync_with_upstream, 2: git checkout main
GitCheckout(exit) ==
    /\ gui.pc = "checkout"
    /\ run_cmd("git checkout", exit, "pull")
    /\ UNCHANGED <<call, events, index, last>>

\* sync_with_upstream, 2: git pull --ff-only; the syncs end here
GitPull(exit) ==
    /\ gui.pc = "pull"
    /\ IF gui.action = "push_pr" THEN run_cmd("git pull", exit, "status")
       ELSE IF exit # 0 THEN Ended(Ran("git pull", exit), "error")
       ELSE Ended(Ran("git pull", exit), "ok")
    /\ UNCHANGED <<call, events, index, last>>

\* git status --porcelain events/: no output, nothing to publish
GitStatus(exit, changes) ==
    /\ gui.pc = "status"
    /\ IF exit # 0 THEN Ended(Ran("git status", exit), "error")
       ELSE IF ~changes THEN Ended(Ran("git status", exit), "no changes")
       ELSE gui' = [gui EXCEPT !.ran = Ran("git status", exit), !.pc = "branch"]
    /\ UNCHANGED <<call, events, index, last>>

GitCheckoutBranch(exit) ==
    /\ gui.pc = "branch"
    /\ run_cmd("git checkout -b", exit, "add")
    /\ UNCHANGED <<call, events, index, last>>

GitAdd(exit) ==
    /\ gui.pc = "add"
    /\ run_cmd("git add", exit, "commit")
    /\ UNCHANGED <<call, events, index, last>>

GitCommit(exit) ==
    /\ gui.pc = "commit"
    /\ run_cmd("git commit", exit, "push")
    /\ UNCHANGED <<call, events, index, last>>

GitPush(exit) ==
    /\ gui.pc = "push"
    /\ run_cmd("git push", exit, "owner")
    /\ UNCHANGED <<call, events, index, last>>

\* gh repo view: the fork's owner; a non-zero return code or no output raises
GhRepoView(exit, owner) ==
    /\ gui.pc = "owner"
    /\ IF exit # 0 \/ ~owner THEN Ended(Ran("gh repo view", exit), "error")
       ELSE gui' = [gui EXCEPT !.ran = Ran("gh repo view", exit), !.pc = "pr"]
    /\ UNCHANGED <<call, events, index, last>>

GhPrCreate(exit) ==
    /\ gui.pc = "pr"
    /\ IF exit # 0 THEN Ended(Ran("gh pr create", exit), "error")
       ELSE gui' = [gui EXCEPT !.ran = Ran("gh pr create", exit), !.pc = "open"]
    /\ UNCHANGED <<call, events, index, last>>

\* open <pr url>: whatever it does is ignored
OpenPr(exit) ==
    /\ gui.pc = "open"
    /\ Ended(Ran("open", exit), "ok")
    /\ UNCHANGED <<call, events, index, last>>

NextPublish ==
    \/ \E action \in {"push_pr", "startup_sync", "manual_sync"} : Start(action)
    \/ \E found \in BOOLEAN : CheckTools(found)
    \/ \E found \in BOOLEAN : DetectRepo(found)
    \/ \E exit \in ExitCodes : GhAuthStatus(exit)
    \/ ensure_origin_is_fork
    \/ \E exit \in ExitCodes : GhRepoSync(exit)
    \/ \E exit \in ExitCodes : GitCheckout(exit)
    \/ \E exit \in ExitCodes : GitPull(exit)
    \/ \E exit \in ExitCodes, changes \in BOOLEAN : GitStatus(exit, changes)
    \/ \E exit \in ExitCodes : GitCheckoutBranch(exit)
    \/ \E exit \in ExitCodes : GitAdd(exit)
    \/ \E exit \in ExitCodes : GitCommit(exit)
    \/ \E exit \in ExitCodes : GitPush(exit)
    \/ \E exit \in ExitCodes, owner \in BOOLEAN : GhRepoView(exit, owner)
    \/ \E exit \in ExitCodes : GhPrCreate(exit)
    \/ \E exit \in ExitCodes : OpenPr(exit)

SpecPublish == InitPublish /\ [][NextPublish]_vars

(***************************************************************************)
(* Claims about the helpers (checked under SpecHelpers)                    *)
(***************************************************************************)
NoEdgeHyphen(s) == s # <<>> /\ s[1] # "-" /\ s[Len(s)] # "-"

\* a title that reduces to nothing: no letter, no digit and no ampersand
ReducesToNothing(s) == Range(s) \cap ((WordChars \ {"_"}) \cup {"&"}) = {}

SlugCalled == call.fn \in {"gui_slugify", "cli_slugify"}

\* C3 as stated: the output of slugify (GUI and CLI) contains only lowercase
\* ASCII word characters and hyphens, never starts or ends with a hyphen and
\* is non-empty ("event" for an input that reduces to nothing).
C3_SlugAsciiOnly ==
    SlugCalled =>
        /\ Range(call.ret) \subseteq LowerChars \cup DigitChars \cup {"_", "-"}
        /\ NoEdgeHyphen(call.ret)
        /\ (ReducesToNothing(call.arg) => call.ret = Event)

\* C3 as amended: the output of slugify (GUI and CLI) contains only hyphens
\* and word characters that are neither capitals nor the underscore (ASCII
\* lowercase letters, digits, and the non-ASCII letters of the title as
\* lower-cased), never starts or ends with a hyphen and is non-empty ("event"
\* for an input that reduces to nothing).
C3_SlugShape ==
    SlugCalled =>
        /\ Range(call.ret) \subseteq
              (WordChars \ (UpperChars \cup {"_", "<I-dot>"})) \cup {"-"}
        /\ NoEdgeHyphen(call.ret)
        /\ (ReducesToNothing(call.arg) => call.ret = Event)

\* a slug that keeps a non-ASCII letter of the title next to a hyphen
C3_Witness ==
    /\ call.fn = "gui_slugify"
    /\ "<alef>" \in Range(call.ret)
    /\ "-" \in Range(call.ret)
    /\ Len(call.ret) < Len(call.arg)

\* the date has the exact shape YYYY-MM-DD and is a day of the calendar
RealDate(s) ==
    /\ YmdShape(s)
    /\ ValidYmd(ToInt(SubSeq(s, 1, 4)), ToInt(SubSeq(s, 6, 7)), ToInt(SubSeq(s, 9, 10)))

\* the time has the exact shape HH:MM with hour 0..23 and minute 0..59
RealTime(s) ==
    /\ HhMmShape(s)
    /\ ValidHm(ToInt(SubSeq(s, 1, 2)), ToInt(SubSeq(s, 4, 5)))

\* C7: validate_date returns its input unchanged if and only if the input has
\* the exact shape YYYY-MM-DD and is a real calendar date; every other string
\* fails with a format error.
C7_ValidateDateExact ==
    call.fn = "validate_date" =>
        /\ call.ok <=> RealDate(call.arg)
        /\ call.ok => call.ret = call.arg

\* C8 as stated: validate_time returns "00:00" for an empty or all-whitespace
\* input; otherwise it returns the string if and only if the string has the
\* exact shape HH:MM in range, and fails for every other input.
C8_ValidateTimeRaw ==
    call.fn = "validate_time" =>
        IF Strip(call.arg, Whitespace) = <<>>
        THEN call.ok /\ call.ret = Midnight
        ELSE /\ call.ok <=> RealTime(call.arg)
             /\ call.ok => call.ret = call.arg

\* C8 as amended: validate_time returns "00:00" for an empty or all-whitespace
\* input; otherwise, with s the input without its surrounding whitespace, it
\* returns s if and only if s has the exact shape HH:MM with hour 0..23 and
\* minute 0..59, and fails for every other input.
C8_ValidateTimeStripped ==
    call.fn = "validate_time" =>
        LET s == Strip(call.arg, Whitespace)
        IN  IF s = <<>>
            THEN call.ok /\ call.ret = Midnight
            ELSE /\ call.ok <=> RealTime(s)
                 /\ call.ok => call.ret = s

\* a time written with blanks around it is accepted and returned without them
C8_Witness ==
    /\ call.fn = "validate_time"
    /\ call.ok
    /\ call.ret # call.arg
    /\ call.ret # Midnight

(***************************************************************************)
(* Claims about the events directory (checked under Spec)                  *)
(***************************************************************************)
\* the datetime of an event as its meta.json states it: date plus time, a
\* missing or empty time counted as 00:00
EventDt(meta) ==
    LET date == Strip(meta["date"], Whitespace)
        time == IF "time" \notin DOMAIN meta \/ meta["time"] = <<>> THEN Midnight
                ELSE Strip(meta["time"], Whitespace)
    IN  <<ToInt(SubSeq(date, 1, 4)), ToInt(SubSeq(date, 6, 7)), ToInt(SubSeq(date, 9, 10)),
          ToInt(SubSeq(time, 1, 2)), ToInt(SubSeq(time, 4, 5))>>

\* a meta.json whose date is missing, malformed or no day of the calendar, or
\* whose time is malformed or out of range (blanks around a value are not
\* counted as malformed)
BadDateTime(meta) ==
    \/ "date" \notin DOMAIN meta
    \/ ~RealDate(Strip(meta["date"], Whitespace))
    \/ /\ "time" \in DOMAIN meta
       /\ meta["time"] # <<>>
       /\ ~RealTime(Strip(meta["time"], Whitespace))

SomeBadFolder == \E f \in DOMAIN events :
                    events[f].hasMeta /\ BadDateTime(events[f].meta)

\* C1: after a successful build, index.json lists event folders in ascending
\* order of their datetime: for positions i < j the datetime of entry i is
\* less than or equal to that of entry j.
C1_IndexSorted ==
    (last.op = "build" /\ last.exit = 0) =>
        /\ index.exists
        /\ \A i \in 1..Len(index.names) : index.names[i] \in DOMAIN events
        /\ \A i, j \in 1..Len(index.names) :
              i < j => ~DtLess(EventDt(events[index.names[j]].meta),
                               EventDt(events[index.names[i]].meta))

\* a successful build of three folders, of which two fall on different instants
C1_Witness ==
    /\ last.op = "build"
    /\ last.exit = 0
    /\ Len(index.names) = 3
    /\ DtLess(EventDt(events[index.names[1]].meta), EventDt(events[index.names[3]].meta))

\* C2: if some folder's meta.json has a missing, malformed or non-calendar
\* date, or a malformed or out-of-range time, build ends with an error and
\* leaves index.json as it was: not created if absent, not modified if present.
C2_BuildAbortsUnchanged ==
    [][(last'.op = "build" /\ SomeBadFolder) => (last'.exit # 0 /\ index' = index)]_vars

\* a failed build next to an index.json that an earlier build wrote
C2_Witness ==
    /\ last.op = "build"
    /\ last.exit # 0
    /\ SomeBadFolder
    /\ index.exists
    /\ index.names # <<>>

RockFolder == Str_2026_03_07 \o <<"-", "r", "o", "c", "k", "-", "a", "n", "d", "-",
                                  "r", "o", "l", "l", "-", "n", "i", "g", "h", "t">>

Created == last.op \in {"new", "create_event"} /\ last.wrote

\* C4: on both creation paths (create_event, and new without --slug) the
\* folder is named {date}-{slug(title)}, the slug replacing & by and: the title
\* "Rock & Roll Night!!" with date 2026-03-07 gives 2026-03-07-rock-and-roll-night.
C4_RockFolderOnBothPaths ==
    (/\ Created
     /\ last.title = RockTitle
     /\ last.date = Str_2026_03_07
     /\ last.slug = <<>>) => last.folder = RockFolder

\* C5: a new whose target folder already exists exits with an error and leaves
\* the folder's meta.json and cover.jpg unchanged; new writes each folder's
\* meta.json at most once.
C5_NewNeverOverwrites ==
    [][/\ (last'.op = "new" /\ last'.folder \in DOMAIN events) =>
             (last'.exit # 0 /\ ~last'.wrote /\ events' = events)
       /\ \A f \in DOMAIN events' : events'[f].newWrites <= 1]_vars

\* a new refused because its folder exists, the folder having been written by
\* an earlier new
C5_Witness ==
    /\ last.op = "new"
    /\ last.exit # 0
    /\ last.folder \in DOMAIN events
    /\ events[last.folder].newWrites = 1
    /\ events[last.folder].meta["time"] # (IF last.time = <<>> THEN Str_22_00 ELSE last.time)

\* C6: new with a --date that is no valid YYYY-MM-DD calendar date, or a
\* --time that is no valid HH:MM, exits non-zero and creates no folder and no
\* meta.json.
C6_NewValidatesDateTime ==
    (/\ last.op = "new"
     /\ \/ ~RealDate(last.date)
        \/ last.time # <<>> /\ ~RealTime(last.time)) => (last.exit # 0 /\ ~last.wrote)

\* C10: an event created with a blank or omitted time is persisted with time
\* "00:00", by the GUI and by new.
C10_BlankTimeIsMidnight ==
    (Created /\ Strip(last.time, Whitespace) = <<>>) =>
        events[last.folder].meta["time"] = Midnight

SomeFolderWithoutTitle == \E f \in DOMAIN events :
                             events[f].hasMeta /\ "title" \notin DOMAIN events[f].meta

\* C11: if some folder's meta.json has no title key, build ends with an error
\* and writes no index.json (an empty title is allowed).
C11_BuildRequiresTitle ==
    [][(last'.op = "build" /\ SomeFolderWithoutTitle) =>
          (last'.exit # 0 /\ ~last'.wrote /\ index' = index)]_vars

\* the immediate subdirectories of events/ that contain a meta.json
FoldersWithMeta == {f \in DOMAIN events : events[f].hasMeta}

\* C12: a successful build leaves index.json listing exactly the names of the
\* subdirectories of events/ that contain a meta.json, each exactly once,
\* whatever index.json held before.
C12_IndexIsFullRebuild ==
    (last.op = "build" /\ last.exit = 0) =>
        /\ index.exists
        /\ Range(index.names) = FoldersWithMeta
        /\ Len(index.names) = Cardinality(FoldersWithMeta)

\* a successful build that lists two folders and passes over a directory
\* without meta.json
C12_Witness ==
    /\ last.op = "build"
    /\ last.exit = 0
    /\ Len(index.names) = 2
    /\ \E f \in DOMAIN events : ~events[f].hasMeta

\* C13: a folder that create_event has written is accepted by a later build:
\* when it is the only folder with a meta.json, the build that follows
\* succeeds and lists it.
C13_GuiFolderBuilds ==
    [][(/\ last.op = "create_event"
        /\ last.wrote
        /\ FoldersWithMeta = {last.folder}
        /\ last'.op = "build") => (last'.exit = 0 /\ index'.names = <<last.folder>>)]_vars

(***************************************************************************)
(* Claims about the publish flow (checked under SpecPublish)               *)
(***************************************************************************)
PublishOrder == <<"gh repo sync", "git checkout", "git pull", "git status",
                  "git checkout -b", "git add", "git commit", "git push", "gh pr create">>

\* the steps of the publish sequence that have run, in the order they ran
PublishRan == SelectSeq(gui.ran, LAMBDA r : r.cmd \in Range(PublishOrder))

\* C9: in push_pr the steps run in the order fork-sync, checkout, pull, status,
\* branch, add, commit, push, create pull request; a non-zero exit of a step
\* other than fork-sync ends the sequence with an error and no later step
\* runs; after a failed fork-sync the sequence goes on with checkout.
C9_PublishOrder ==
    gui.action = "push_pr" =>
        /\ Len(PublishRan) <= Len(PublishOrder)
        /\ \A i \in 1..Len(PublishRan) : PublishRan[i].cmd = PublishOrder[i]
        /\ \A i \in 1..Len(gui.ran) :
              (gui.ran[i].cmd \in Range(PublishOrder) \ {"gh repo sync"}
                 /\ gui.ran[i].exit # 0) =>
                    (i = Len(gui.ran) /\ gui.pc = "end" /\ gui.result = "error")
        /\ (gui.ran # <<>> /\ gui.ran[Len(gui.ran)] = [cmd |-> "gh repo sync", exit |-> 1]) =>
              (gui.pc = "checkout" /\ gui.result = "none")

\* a pull request created after a fork-sync that failed
C9_Witness ==
    /\ gui.action = "push_pr"
    /\ gui.result = "ok"
    /\ Len(PublishRan) = Len(PublishOrder)
    /\ PublishRan[1].exit # 0
    /\ PublishRan[8] = [cmd |-> "git push", exit |-> 0]

\* GitHub matches owner and repository names without regard to case: the
\* origin points at the upstream repository if its URL names it in any case
PointsAtUpstream == Contains(UpstreamName, Lower(gui.origin))

\* the steps that synchronise with, or publish to, the remote repositories
GuardedSteps == {"gh repo sync", "git checkout", "git pull", "git checkout -b",
                 "git add", "git commit", "git push", "gh pr create"}

\* C14: when the origin remote points at the upstream repository, push_pr,
\* startup_sync and manual_sync run no sync, branch creation, commit, push or
\* pull-request step.
C14_NoStepOnUpstream ==
    PointsAtUpstream => \A i \in 1..Len(gui.ran) : gui.ran[i].cmd \notin GuardedSteps

\* the origin check as the code makes it: an origin whose URL contains the
\* text "ronnuriel/promo-site" ends the action at the check
ExactNameRefused ==
    Contains(UpstreamName, gui.origin) =>
        /\ \A i \in 1..Len(gui.ran) : gui.ran[i].cmd \notin GuardedSteps
        /\ (gui.ran # <<>> /\ gui.ran[Len(gui.ran)].cmd = "git remote get-url origin") =>
              (gui.pc = "end" /\ gui.result = "error")

====
